---- MODULE Spec2Model ----
(***************************************************************************)
(* Model of the chord-annotation pipeline of music-app:                    *)
(*   src/process_score.py  choose_melody_part, analyze_measures,           *)
(*                         insert_chords_into_score, process_musicxml_file,*)
(*                         main                                            *)
(*   src/app.py            build_score_from_pdf, annotate                  *)
(* The music21 library is external: each of its calls that the code wraps  *)
(* in try/except is modelled with both of its outcomes.                    *)
(***************************************************************************)
EXTENDS Integers, Sequences, FiniteSets, TLC

VARIABLES pc, mode, file, score, score_key, melody, results, attempts,
          new_score, sites, xml_written, meta, response

vars == <<pc, mode, file, score, score_key, melody, results, attempts,
          new_score, sites, xml_written, meta, response>>

(***************************************************************************)
(* Bounds of the inputs                                                    *)
(***************************************************************************)
MaxParts == 2
MaxMeasures == 2
MaxEvents == 2
MaxChordPitches == 2

\* Python's None, for the string-valued fields
None == "None"
\* Python's None, for a chord symbol (chord symbols are tuples of strings)
NoChord == <<>>

Pitches == {"C", "G"}
\* offset 0 is the downbeat, 1 any later position in the measure
Offsets == {0, 1}
Keys == {"C major"}
MeasureNumbers == {2, 5}
TimeSignatures == {None, "3/4"}
KeySignatures == {None, "1#"}

SeqsUpTo(S, n) == UNION {[1..k -> S] : k \in 0..n}

(***************************************************************************)
(* The score structure handed over by music21 (parts > measures > events). *)
(* A Note has one pitch or none (pitches = <<>>); a Chord has a sequence   *)
(* of pitches, possibly empty.                                             *)
(***************************************************************************)
NoteEvents ==
    [cls : {"Note"}, pitches : {<<>>} \cup {<<p>> : p \in Pitches}, offset : Offsets]

ChordEvents ==
    [cls : {"Chord"}, pitches : SeqsUpTo(Pitches, MaxChordPitches), offset : Offsets]

Events == NoteEvents \cup ChordEvents

\* a stream keeps its elements ordered by offset
OffsetSorted(ev) == \A i \in 1..(Len(ev) - 1) : ev[i].offset <= ev[i + 1].offset

EventSeqs == {ev \in SeqsUpTo(Events, MaxEvents) : OffsetSorted(ev)}

Measure(n, ts, ks, ev) ==
    [number |-> n, timeSignature |-> ts, keySignature |-> ks, events |-> ev]

Part(i, ms) == [id |-> "P" \o ToString(i), staffLines |-> 5, measures |-> ms]

\* the scores whose parts are the sequences, of length lo..hi, over partBodies
ScoresOver(partBodies, lo, hi) ==
    {[i \in 1..Len(b) |-> Part(i, b[i])] :
        b \in UNION {[1..k -> partBodies] : k \in lo..hi}}

(***************************************************************************)
(* choose_melody_part                                                      *)
(***************************************************************************)
RECURSIVE CountNotes(_)
CountNotes(ev) ==
    IF ev = <<>> THEN 0
    ELSE (IF Head(ev).cls = "Note" THEN 1 ELSE 0) + CountNotes(Tail(ev))

RECURSIVE NoteCount(_)
\* len(list(p.recurse().getElementsByClass(note.Note))), ms the part's measures
NoteCount(ms) ==
    IF ms = <<>> THEN 0 ELSE CountNotes(Head(ms).events) + NoteCount(Tail(ms))

\* the variant that keeps the last maximum
BetterOrEqual(n_count, best_count) == n_count >= best_count

\* line 21: if n_count > best_count
Better(n_count, best_count) == n_count > best_count

RECURSIVE MelodyLoop(_, _, _, _)
\* the for loop over parts: i the next index, best the index kept so far (0: None)
MelodyLoop(parts, i, best, best_count) ==
    IF i > Len(parts) THEN best
    ELSE LET n_count == NoteCount(parts[i].measures)
         IN  IF Better(n_count, best_count)
             THEN MelodyLoop(parts, i + 1, i, n_count)
             ELSE MelodyLoop(parts, i + 1, best, best_count)

\* the index in score order of the part returned (the score has >= 1 part)
ChooseMelodyPart(parts) == MelodyLoop(parts, 1, 0, -1)

(***************************************************************************)
(* analyze_measures, one measure                                           *)
(***************************************************************************)
RECURSIVE Flatten(_)
Flatten(ss) == IF ss = <<>> THEN <<>> ELSE Head(ss) \o Flatten(Tail(ss))

OfClass(ev, c) == SelectSeq(ev, LAMBDA e : e.cls = c)

\* pitches of the Notes that have one, then the pitches of the Chords
CollectPitches(meas) ==
    Flatten([i \in 1..Len(OfClass(meas.events, "Note")) |->
                OfClass(meas.events, "Note")[i].pitches])
    \o Flatten([i \in 1..Len(OfClass(meas.events, "Chord")) |->
                OfClass(meas.events, "Chord")[i].pitches])

\* the variant that flags Notes only
UncertainIgnoringChords(meas) ==
    \E i \in 1..Len(meas.events) :
        meas.events[i].cls = "Note" /\ meas.events[i].pitches = <<>>

\* lines 40-51: a Note with pitch None or a Chord with len(pitches) == 0 was seen
Uncertain(meas) ==
    \E i \in 1..Len(meas.events) : meas.events[i].pitches = <<>>

(***************************************************************************)
(* What the music21 calls do on the data of one measure: each either       *)
(* yields a symbol ("sym"), returns None ("none") or raises ("raise").     *)
(* A call has an outcome only where its argument exists: the spelling and  *)
(* bare-root calls need a pitch, the Roman-numeral call needs a key.       *)
(***************************************************************************)
NA == "n/a"

LibOutcomes(pitches, key) ==
    [nonForced : IF pitches = <<>> THEN {NA} ELSE {"sym", "none", "raise"},
     forced    : IF pitches = <<>> THEN {NA} ELSE {"sym", "none", "raise"},
     roman     : IF key = None THEN {NA} ELSE {"sym", "raise"},
     root      : IF pitches = <<>> THEN {NA} ELSE {"sym", "raise"}]

\* the figures of the chord symbols the four stages build
Spelled(pitches) == <<"spelled">> \o pitches
Triad(pitches) == <<"triad">> \o pitches
Roman(pitch, key) == <<"roman", pitch, key>>
Root(pitch) == <<"root", pitch>>

Tried(stage, out) == [stage |-> stage, out |-> out]

\* the variant with one try block per spelling call
SpellStageRetryAfterRaise(pitches, l) ==
    IF pitches = <<>> THEN [cs |-> NoChord, tried |-> <<>>]
    ELSE IF l.nonForced = "sym"
         THEN [cs |-> Spelled(pitches), tried |-> <<Tried("nonForced", "sym")>>]
         ELSE [cs |-> IF l.forced = "sym" THEN Triad(pitches) ELSE NoChord,
               tried |-> <<Tried("nonForced", l.nonForced), Tried("forced", l.forced)>>]

\* lines 53-63: chord.Chord(pitches) and chordSymbolFromChord non-forced, then,
\* if that returned None, forced; one try block is around all of it, so an
\* exception of the non-forced call ends the stage with cs = None
SpellStage(pitches, l) ==
    IF pitches = <<>> THEN [cs |-> NoChord, tried |-> <<>>]
    ELSE IF l.nonForced = "sym"
         THEN [cs |-> Spelled(pitches), tried |-> <<Tried("nonForced", "sym")>>]
         ELSE IF l.nonForced = "raise"
              THEN [cs |-> NoChord, tried |-> <<Tried("nonForced", "raise")>>]
              ELSE [cs |-> IF l.forced = "sym" THEN Triad(pitches) ELSE NoChord,
                    tried |-> <<Tried("nonForced", "none"), Tried("forced", l.forced)>>]

\* meas.notes: the Notes and Chords of the measure, in stream order
\* line 68-69: the first one on the downbeat, else the first one
RefNote(meas) ==
    LET downbeat_notes == SelectSeq(meas.events, LAMBDA n : n.offset = 0)
    IN  IF downbeat_notes # <<>> THEN downbeat_notes[1] ELSE meas.events[1]

\* the variant without the len(pitches) > 0 condition of line 65
KeyStageUnguarded(meas, pitches, key, l, cs) ==
    IF cs = NoChord /\ key # None
    THEN LET ref_note == RefNote(meas)
             ok == meas.events # <<>> /\ ref_note.cls = "Note" /\ ref_note.pitches # <<>> /\ l.roman = "sym"
         IN  [cs |-> IF ok THEN Roman(ref_note.pitches[1], key) ELSE NoChord,
              tried |-> <<Tried("roman", IF ok THEN "sym" ELSE "raise")>>]
    ELSE [cs |-> cs, tried |-> <<>>]

\* lines 65-75; ref_note.pitch raises for a Chord, chord.Chord([None]) for a
\* Note without pitch, and the Roman-numeral calls raise as the library decides
KeyStage(meas, pitches, key, l, cs) ==
    IF cs = NoChord /\ pitches # <<>> /\ key # None
    THEN LET ref_note == RefNote(meas)
             ok == ref_note.cls = "Note" /\ ref_note.pitches # <<>> /\ l.roman = "sym"
         IN  [cs |-> IF ok THEN Roman(ref_note.pitches[1], key) ELSE NoChord,
              tried |-> <<Tried("roman", IF ok THEN "sym" ELSE "raise")>>]
    ELSE [cs |-> cs, tried |-> <<>>]

\* the variant that falls back to the root only when there is no key
RootStageOnlyWithoutKey(pitches, key, l, cs) ==
    IF cs = NoChord /\ pitches # <<>> /\ key = None
    THEN [cs |-> IF l.root = "sym" THEN Root(pitches[1]) ELSE NoChord,
          tried |-> <<Tried("root", l.root)>>]
    ELSE [cs |-> cs, tried |-> <<>>]

\* lines 77-82: harmony.ChordSymbol(figure=pitches[0].name) in a try block
\* whose except branch sets cs = None
RootStage(pitches, key, l, cs) ==
    IF cs = NoChord /\ pitches # <<>>
    THEN [cs |-> IF l.root = "sym" THEN Root(pitches[1]) ELSE NoChord,
          tried |-> <<Tried("root", l.root)>>]
    ELSE [cs |-> cs, tried |-> <<>>]

\* lines 38-83, the body of the loop over the measures
AnalyzeMeasure(meas, key, l) ==
    LET pitches == CollectPitches(meas)
        s1 == SpellStage(pitches, l)
        s3 == KeyStage(meas, pitches, key, l, s1.cs)
        s4 == RootStage(pitches, key, l, s3.cs)
    IN  [cs |-> s4.cs, uncertain |-> Uncertain(meas),
         tried |-> s1.tried \o s3.tried \o s4.tried]

(***************************************************************************)
(* insert_chords_into_score                                                *)
(***************************************************************************)
ChordSymbolEvent(cs, uncertain) ==
    [cls |-> "ChordSymbol", figure |-> cs,
     lyrics |-> IF uncertain THEN <<"(uncertain)">> ELSE <<>>, offset |-> 0]

\* lines 97-111: the measure built for one analysis result
NewMeasure(meas, cs, uncertain) ==
    Measure(meas.number, meas.timeSignature, meas.keySignature,
            IF cs # NoChord THEN <<ChordSymbolEvent(cs, uncertain)>> ELSE <<>>)

\* the variant that appends a measure only when it got a chord symbol
ChordMeasuresSkippingEmpty(measures, res) ==
    LET kept == SelectSeq(res, LAMBDA r : r.cs # NoChord)
    IN  [i \in 1..Len(kept) |->
            NewMeasure(measures[kept[i].meas], kept[i].cs, kept[i].uncertain)]

\* lines 95-112: one new measure appended per analysis result, in order
ChordMeasures(measures, res) ==
    [i \in 1..Len(res) |-> NewMeasure(measures[res[i].meas], res[i].cs, res[i].uncertain)]

ChordPart(measures, res) ==
    [id |-> "Chords", staffLines |-> 0, measures |-> ChordMeasures(measures, res)]

\* the variant that inserts the chord part after the original parts
AssembleChordsLast(parts, chord_part) ==
    [score |-> parts, new_score |-> parts \o <<chord_part>>]

\* lines 115-121: a new Score, the chord part inserted first, then the parts
\* of the original score; the original score object is only read
Assemble(parts, chord_part) ==
    [score |-> parts, new_score |-> <<chord_part>> \o parts]

\* the objects that hold a signature object: the measure it was parsed into,
\* and every measure it was inserted into afterwards
SigId(p, m, kind) == <<p, m, kind>>
OrigOwner(p, m) == <<"orig", p, m>>
ChordsOwner(i) == <<"Chords", 0, i>>

HasSig(parts, id) ==
    /\ id[1] \in 1..Len(parts)
    /\ id[2] \in 1..Len(parts[id[1]].measures)
    /\ IF id[3] = "ts" THEN parts[id[1]].measures[id[2]].timeSignature # None
                       ELSE parts[id[1]].measures[id[2]].keySignature # None

SigIds(parts) ==
    {id \in (1..Len(parts)) \X (1..MaxMeasures) \X {"ts", "ks"} : HasSig(parts, id)}

ParsedSites(parts) == [id \in SigIds(parts) |-> {OrigOwner(id[1], id[2])}]

\* the variant in which an object has one holder at a time
MoveSignature(owners, new_owner) == {new_owner}

\* lines 98-103: new_m.timeSignature = ts inserts the same object into new_m;
\* the object stays an element of the measure it came from
ShareSignature(owners, new_owner) == owners \cup {new_owner}

SitesAfterInsert(s, mel, res) ==
    [id \in DOMAIN s |->
        IF id[1] = mel /\ \E i \in 1..Len(res) : res[i].meas = id[2]
        THEN ShareSignature(s[id], ChordsOwner(CHOOSE i \in 1..Len(res) : res[i].meas = id[2]))
        ELSE s[id]]

(***************************************************************************)
(* The callers and process_musicxml_file                                   *)
(***************************************************************************)
Modes == {"cli", "web", "api"}

\* main requires --out-pdf and build_score_from_pdf passes one; a direct call
\* may leave out_pdf at its default None
OutPdf(m) == m # "api"

\* "key": str(score_key) if score_key else None
KeyLabel(key) == IF key # None THEN "<" \o key \o ">" ELSE None

CountUncertain(res) == Len(SelectSeq(res, LAMBDA r : r.uncertain))

Meta(key, res, pdf) ==
    [key |-> KeyLabel(key), measures |-> Len(res),
     uncertain_measures |-> CountUncertain(res), pdf_written |-> pdf]

Reply(kind, code, err, body) == [kind |-> kind, code |-> code, error |-> err, body |-> body]

MelodyMeasures == score[melody].measures

Idle ==
    /\ score_key = None /\ melody = 0 /\ results = <<>> /\ attempts = <<>>
    /\ new_score = <<>> /\ xml_written = FALSE /\ meta = <<>>
    /\ response = <<>>

\* main, lines 193-195
CliInputMissing ==
    /\ pc = "start" /\ mode = "cli" /\ file = "missing"
    /\ pc' = "done"
    /\ response' = <<Reply("exit", 1, "Input file not found", <<>>)>>
    /\ UNCHANGED <<mode, file, score, score_key, melody, results, attempts,
                   new_score, sites, xml_written, meta>>

\* lines 129-130
InputNotFound ==
    /\ pc = "start" /\ mode # "cli" /\ file = "missing"
    /\ pc' = "failed"
    /\ response' = <<Reply("raise", 0, "FileNotFoundError", <<>>)>>
    /\ UNCHANGED <<mode, file, score, score_key, melody, results, attempts,
                   new_score, sites, xml_written, meta>>

\* line 133, converter.parse succeeds
Parse ==
    /\ pc = "start" /\ file = "ok"
    /\ pc' = "parsed"
    /\ UNCHANGED <<mode, file, score, score_key, melody, results, attempts,
                   new_score, sites, xml_written, meta, response>>

\* line 133, converter.parse raises
ParseFail ==
    /\ pc = "start" /\ file = "malformed"
    /\ pc' = "failed"
    /\ response' = <<Reply("raise", 0, "ParseError", <<>>)>>
    /\ UNCHANGED <<mode, file, score, score_key, melody, results, attempts,
                   new_score, sites, xml_written, meta>>

\* the variant without the try block around score.analyze('key')
EstimateKeyUnguarded ==
    /\ pc = "parsed"
    /\ \/ /\ score_key' \in Keys
          /\ pc' = "keyed"
          /\ UNCHANGED response
       \/ /\ score_key' = None
          /\ pc' = "failed"
          /\ response' = <<Reply("raise", 0, "KeyAnalysisError", <<>>)>>
    /\ UNCHANGED <<mode, file, score, melody, results, attempts,
                   new_score, sites, xml_written, meta>>

\* lines 136-142: score.analyze('key') yields a key, or raises and is swallowed
EstimateKey ==
    /\ pc = "parsed"
    /\ score_key' \in Keys \cup {None}
    /\ pc' = "keyed"
    /\ UNCHANGED <<mode, file, score, melody, results, attempts,
                   new_score, sites, xml_written, meta, response>>

\* line 144 with lines 13-25
ChooseMelody ==
    /\ pc = "keyed" /\ Len(score) # 0
    /\ melody' = ChooseMelodyPart(score)
    /\ pc' = "analyzing"
    /\ UNCHANGED <<mode, file, score, score_key, results, attempts,
                   new_score, sites, xml_written, meta, response>>

\* line 144 with lines 14-15
NoParts ==
    /\ pc = "keyed" /\ Len(score) = 0
    /\ pc' = "failed"
    /\ response' = <<Reply("raise", 0, "ValueError: No parts found in score", <<>>)>>
    /\ UNCHANGED <<mode, file, score, score_key, melody, results, attempts,
                   new_score, sites, xml_written, meta>>

\* line 147 with lines 37-83: one pass of the loop over the melody's measures
AnalyzeStep ==
    /\ pc = "analyzing" /\ Len(results) < Len(MelodyMeasures)
    /\ LET i == Len(results) + 1
           meas == MelodyMeasures[i]
       IN  \E l \in LibOutcomes(CollectPitches(meas), score_key) :
             LET r == AnalyzeMeasure(meas, score_key, l)
             IN  /\ results' = Append(results, [meas |-> i, cs |-> r.cs,
                                                uncertain |-> r.uncertain])
                 /\ attempts' = r.tried
    /\ UNCHANGED <<pc, mode, file, score, score_key, melody, new_score, sites,
                   xml_written, meta, response>>

\* line 84 and line 150 with lines 89-121
InsertChords ==
    /\ pc = "analyzing" /\ Len(results) = Len(MelodyMeasures)
    /\ LET a == Assemble(score, ChordPart(MelodyMeasures, results))
       IN  /\ score' = a.score
           /\ new_score' = a.new_score
    /\ sites' = SitesAfterInsert(sites, melody, results)
    /\ attempts' = <<>>
    /\ pc' = "inserted"
    /\ UNCHANGED <<mode, file, score_key, melody, results, xml_written, meta, response>>

\* line 154 succeeds
WriteXml ==
    /\ pc = "inserted"
    /\ xml_written' = TRUE
    /\ pc' = "written"
    /\ UNCHANGED <<mode, file, score, score_key, melody, results, attempts,
                   new_score, sites, meta, response>>

\* line 154 raises
WriteXmlFail ==
    /\ pc = "inserted"
    /\ pc' = "failed"
    /\ response' = <<Reply("raise", 0, "WriteError", <<>>)>>
    /\ UNCHANGED <<mode, file, score, score_key, melody, results, attempts,
                   new_score, sites, xml_written, meta>>

\* lines 157-182; setting the MuseScore path (157-162) changes none of the
\* state kept here and its failure is swallowed
Return(pdf_written) ==
    /\ meta' = <<Meta(score_key, results, pdf_written)>>
    /\ pc' = "returned"
    /\ UNCHANGED <<mode, file, score, score_key, melody, results, attempts,
                   new_score, sites, xml_written, response>>

\* lines 165-170
RenderOk == pc = "written" /\ OutPdf(mode) /\ Return(TRUE)

\* lines 165-175: the export raises, the exception is logged
RenderFail == pc = "written" /\ OutPdf(mode) /\ Return(FALSE)

\* line 165: no out_pdf
RenderSkipped == pc = "written" /\ ~OutPdf(mode) /\ Return(FALSE)

Finish(reply) ==
    /\ response' = <<reply>>
    /\ pc' = "done"
    /\ UNCHANGED <<mode, file, score, score_key, melody, results, attempts,
                   new_score, sites, xml_written, meta>>

\* main, lines 197-204
CliDone == pc = "returned" /\ mode = "cli" /\ Finish(Reply("exit", 0, None, <<>>))

\* a direct caller receives the dict
ApiReturn == pc = "returned" /\ mode = "api" /\ Finish(Reply("return", 0, None, meta))

\* the variant without the check of lines 92-93
WebIgnoresPdfFlag ==
    /\ pc = "returned" /\ mode = "web"
    /\ Finish(Reply("http", 200, None, meta))

\* app.py lines 92-99 and 123-131, or lines 92-93 and 119-121
WebRespond ==
    /\ pc = "returned" /\ mode = "web"
    /\ IF meta[1].pdf_written
       THEN Finish(Reply("http", 200, None, meta))
       ELSE Finish(Reply("http", 500, "PDF export failed", <<>>))

\* an exception of process_musicxml_file reaches the caller: main dies with
\* it, annotate (app.py 119-121) answers 500, a direct caller gets it raised
Propagate ==
    /\ pc = "failed"
    /\ Finish(Reply(IF mode = "web" THEN "http" ELSE IF mode = "cli" THEN "exit" ELSE "raise",
                    IF mode = "web" THEN 500 ELSE IF mode = "cli" THEN 1 ELSE 0,
                    response[1].error, <<>>))

(***************************************************************************)
(* Inputs                                                                  *)
(***************************************************************************)
PlainMeasure(ev) == Measure(2, None, None, ev)

NoteC == [cls |-> "Note", pitches |-> <<"C">>, offset |-> 0]
NoteNoPitch == [cls |-> "Note", pitches |-> <<>>, offset |-> 0]
ChordCG == [cls |-> "Chord", pitches |-> <<"C", "G">>, offset |-> 0]

SimpleContents == {<<>>, <<NoteC>>, <<NoteNoPitch>>, <<ChordCG>>}

\* whole runs: up to MaxParts parts of one measure each
PipelineScores ==
    ScoresOver({<<PlainMeasure(ev)>> : ev \in SimpleContents}, 0, MaxParts)

\* part selection: up to MaxParts parts of up to MaxMeasures measures
SelectorScores ==
    ScoresOver(SeqsUpTo({PlainMeasure(ev) : ev \in {<<>>, <<NoteC>>, <<ChordCG>>}},
                        MaxMeasures), 0, MaxParts)

\* one measure with up to MaxEvents events of every kind
HarmonizerScores ==
    ScoresOver({<<PlainMeasure(ev)>> : ev \in EventSeqs}, 1, 1)

AssemblerMeasures ==
    {Measure(n, ts, ks, ev) : n \in MeasureNumbers, ts \in TimeSignatures,
                              ks \in KeySignatures, ev \in {<<>>, <<NoteC>>}}

Accompaniment == <<Measure(2, "3/4", None, <<ChordCG>>)>>

\* an accompaniment part, then a part of up to MaxMeasures measures
AssemblerScores ==
    {<<Part(1, Accompaniment), Part(2, b)>> : b \in SeqsUpTo(AssemblerMeasures, MaxMeasures)}

Init ==
    /\ pc = "start"
    /\ mode \in Modes
    /\ file \in IF mode = "web" THEN {"ok", "malformed"} ELSE {"ok", "malformed", "missing"}
    /\ score \in IF file = "ok" THEN PipelineScores ELSE {<<>>}
    /\ sites = ParsedSites(score)
    /\ Idle

Next ==
    \/ CliInputMissing \/ InputNotFound \/ Parse \/ ParseFail \/ EstimateKey
    \/ ChooseMelody \/ NoParts \/ AnalyzeStep \/ InsertChords
    \/ WriteXml \/ WriteXmlFail \/ RenderOk \/ RenderFail \/ RenderSkipped
    \/ CliDone \/ ApiReturn \/ WebRespond \/ Propagate

Spec == Init /\ [][Next]_vars

\* choose_melody_part called on a parsed score
InitSelector ==
    /\ pc = "keyed" /\ mode = "api" /\ file = "ok"
    /\ score \in SelectorScores
    /\ sites = ParsedSites(score)
    /\ Idle

NextSelector == ChooseMelody \/ NoParts

SpecSelector == InitSelector /\ [][NextSelector]_vars

MidInit(scores) ==
    /\ pc = "analyzing" /\ mode = "api" /\ file = "ok"
    /\ score \in scores
    /\ score_key \in Keys \cup {None}
    /\ melody = ChooseMelodyPart(score)
    /\ sites = ParsedSites(score)
    /\ results = <<>> /\ attempts = <<>> /\ new_score = <<>>
    /\ xml_written = FALSE /\ meta = <<>> /\ response = <<>>

\* analyze_measures called on the melody part
InitHarmonizer == MidInit(HarmonizerScores)

NextHarmonizer == AnalyzeStep

SpecHarmonizer == InitHarmonizer /\ [][NextHarmonizer]_vars

\* analyze_measures, then insert_chords_into_score
InitAssembler == MidInit(AssemblerScores)

NextAssembler == AnalyzeStep \/ InsertChords

SpecAssembler == InitAssembler /\ [][NextAssembler]_vars

(***************************************************************************)
(* Properties                                                              *)
(***************************************************************************)
\* the Note objects of part p of the score, counted by position
NotesIn(p) ==
    Cardinality({me \in (1..Len(score[p].measures)) \X (1..MaxEvents) :
                    /\ me[2] <= Len(score[p].measures[me[1]].events)
                    /\ score[p].measures[me[1]].events[me[2]].cls = "Note"})

\* C1: choose_melody_part returns a part of the score whose Note count is the
\* maximum over all parts, the first such part in score order; the only part
\* of a one-part score is returned, also when it has no Notes.
C1_FirstMaximumPart ==
    (pc = "analyzing" /\ results = <<>>) =>
        /\ melody \in 1..Len(score)
        /\ \A j \in 1..Len(score) : NotesIn(j) <= NotesIn(melody)
        /\ \A j \in 1..(melody - 1) : NotesIn(j) < NotesIn(melody)
        /\ (Len(score) = 1 => melody = 1)

C1_Witness ==
    /\ pc = "analyzing" /\ Len(score) = 2
    /\ NotesIn(1) = NotesIn(2) /\ NotesIn(1) > 0 /\ melody = 1

\* the measure analysed last, its result and its collected pitches
Analysed == pc = "analyzing" /\ results # <<>>
LastMeasure == MelodyMeasures[Len(results)]
LastResult == results[Len(results)]
LastPitches == CollectPitches(LastMeasure)

\* C2 as stated: every measure with a non-empty PitchSet gets a chord symbol,
\* with or without a global key and whichever earlier stages failed.
C2_AlwaysLabelled ==
    (Analysed /\ LastPitches # <<>>) => LastResult.cs # NoChord

\* C2 amended: a measure with a non-empty PitchSet gets a chord symbol unless
\* the bare-root stage was reached and building its symbol raised; then, and
\* only then, the result is no chord.
C2_LabelledUnlessRootRaises ==
    (Analysed /\ LastPitches # <<>>) =>
        /\ attempts # <<>>
        /\ LastResult.cs = NoChord <=> attempts[Len(attempts)] = Tried("root", "raise")

C2_Witness ==
    /\ Analysed /\ LastPitches # <<>> /\ score_key = None
    /\ attempts = <<Tried("nonForced", "raise"), Tried("root", "sym")>>
    /\ LastResult.cs = Root(LastPitches[1])

\* C3: a measure with an empty PitchSet gets no chord symbol for any value of
\* the global key, and is uncertain exactly when it holds a Note without pitch
\* or a Chord with zero pitches (so never when it holds no event at all).
C3_EmptyPitchSet ==
    (Analysed /\ LastPitches = <<>>) =>
        /\ LastResult.cs = NoChord
        /\ LastResult.uncertain <=>
             \E i \in 1..Len(LastMeasure.events) :
                \/ LastMeasure.events[i].cls = "Note" /\ LastMeasure.events[i].pitches = <<>>
                \/ LastMeasure.events[i].cls = "Chord" /\ Len(LastMeasure.events[i].pitches) = 0
        /\ (LastMeasure.events = <<>> => ~LastResult.uncertain)

C3_Witness ==
    /\ Analysed /\ score_key # None
    /\ Len(LastMeasure.events) = 1 /\ LastMeasure.events[1].cls = "Chord"
    /\ LastPitches = <<>> /\ LastResult.cs = NoChord /\ LastResult.uncertain

SinglePitchlessNote ==
    /\ Analysed /\ Len(LastMeasure.events) = 1
    /\ LastMeasure.events[1].cls = "Note" /\ LastMeasure.events[1].pitches = <<>>

\* C4 as stated: a measure holding a single Note without pitch yields (no
\* chord, uncertain) when there is no global key; when there is one, the
\* key-relative inference is made for it and the label it produces is the
\* result, with uncertain = true.
C4_KeyRelativeForPitchlessNote ==
    SinglePitchlessNote =>
        IF score_key = None
        THEN LastResult.cs = NoChord /\ LastResult.uncertain
        ELSE /\ \E i \in 1..Len(attempts) : attempts[i].stage = "roman"
             /\ \A i \in 1..Len(attempts) :
                   (attempts[i] = Tried("roman", "sym")) =>
                       (LastResult.cs # NoChord /\ LastResult.cs[1] = "roman"
                        /\ LastResult.uncertain)

\* C4 amended: a measure holding a single Note without pitch yields (no chord,
\* uncertain = true) with and without a global key: its PitchSet is empty, so
\* no stage, the key-relative one included, is attempted for it.
C4_PitchlessNoteNeverLabelled ==
    SinglePitchlessNote =>
        LastResult.cs = NoChord /\ LastResult.uncertain /\ attempts = <<>>

C4_Witness ==
    SinglePitchlessNote /\ score_key # None /\ LastResult.cs = NoChord /\ LastResult.uncertain

\* the stage that builds each kind of figure
StageOfFigure(cs) ==
    IF cs[1] = "spelled" THEN "nonForced"
    ELSE IF cs[1] = "triad" THEN "forced"
    ELSE IF cs[1] = "roman" THEN "roman" ELSE "root"

IsPrefix(a, b) == Len(a) <= Len(b) /\ \A i \in 1..Len(a) : a[i] = b[i]

Stages(att) == [i \in 1..Len(att) |-> att[i].stage]

\* all but the last attempt yielded nothing, and the result is what the last
\* attempt yielded
FirstSuccessWins(att, cs) ==
    /\ \A i \in 1..(Len(att) - 1) : att[i].out # "sym"
    /\ IF att[Len(att)].out = "sym"
       THEN cs # NoChord /\ StageOfFigure(cs) = att[Len(att)].stage
       ELSE cs = NoChord

\* the attempts are the stages of `chain`, in order, up to the first success
\* or, without one, to the end of the chain
RunsChain(att, chain) ==
    /\ att # <<>> /\ IsPrefix(Stages(att), chain)
    /\ att[Len(att)].out # "sym" => Len(att) = Len(chain)

KeyChain == IF score_key # None THEN <<"roman">> ELSE <<>>

\* C10 as stated: for a non-empty PitchSet the stages are attempted in the
\* order non-forced, forced, key-relative (with a key only), bare root; the
\* first that yields a symbol gives the result; a stage is attempted only if
\* all earlier ones yielded none, and always when they did, whether by
\* returning nothing or by raising.
C10_EveryFailureFallsToNextStage ==
    (Analysed /\ LastPitches # <<>>) =>
        /\ FirstSuccessWins(attempts, LastResult.cs)
        /\ RunsChain(attempts, <<"nonForced", "forced">> \o KeyChain \o <<"root">>)

\* C10 amended: as stated, except that forced-triad spelling is attempted
\* exactly when non-forced spelling returned no symbol without raising; when
\* non-forced spelling raises, forced-triad spelling is skipped and the next
\* stage attempted is the key-relative one (with a key) or the bare root.
C10_RaiseSkipsForcedTriad ==
    (Analysed /\ LastPitches # <<>>) =>
        /\ FirstSuccessWins(attempts, LastResult.cs)
        /\ attempts # <<>> /\ attempts[1].stage = "nonForced"
        /\ RunsChain(attempts,
                     <<"nonForced">>
                     \o (IF attempts[1].out = "raise" THEN <<>> ELSE <<"forced">>)
                     \o KeyChain \o <<"root">>)

C10_Witness ==
    /\ Analysed /\ LastPitches # <<>> /\ score_key # None
    /\ attempts = <<Tried("nonForced", "raise"), Tried("roman", "raise"), Tried("root", "sym")>>
    /\ LastResult.cs = Root(LastPitches[1])

ChordsPart == new_score[CHOOSE i \in 1..Len(new_score) : new_score[i].id = "Chords"]

Numbers(ms) == [i \in 1..Len(ms) |-> ms[i].number]

\* C5: after analyze_measures and insert_chords_into_score the Chords part has
\* one measure per analysis result and one result per melody measure, and its
\* measure numbers are the melody's, in the same order, whatever the numbers
\* are and whether or not a measure got a chord symbol.
C5_ChordsPartAligned ==
    pc = "inserted" =>
        /\ Len(results) = Len(MelodyMeasures)
        /\ Len(ChordsPart.measures) = Len(MelodyMeasures)
        /\ Numbers(ChordsPart.measures) = Numbers(MelodyMeasures)

C5_Witness ==
    /\ pc = "inserted" /\ Numbers(MelodyMeasures) = <<5, 2>>
    /\ results[1].cs = NoChord /\ results[2].cs # NoChord
    /\ Numbers(ChordsPart.measures) = <<5, 2>>

\* C6: the composite score is the Chords part followed by every part of the
\* original score, each once and in the original order.
C6_ChordsFirstThenOriginals ==
    new_score # <<>> =>
        /\ Len(new_score) = Len(score) + 1
        /\ new_score[1].id = "Chords"
        /\ \A i \in 1..Len(score) : new_score[i + 1] = score[i]
        /\ \A i \in 1..Len(score) :
              Cardinality({j \in 1..Len(new_score) : new_score[j].id = score[i].id}) = 1

C6_Witness ==
    /\ pc = "inserted" /\ Len(score) = 2 /\ melody = 2
    /\ Len(new_score) = 3 /\ new_score[1].id = "Chords"

ZeroParts == file = "ok" /\ Len(score) = 0

\* C8: a parsed score with zero parts makes the run fail with the melody
\* selector's error, whatever the key estimation did: no measure is analysed,
\* no composite is built, nothing is written and no metadata is returned.
C8_NoPartsAborts ==
    ZeroParts =>
        /\ pc \in {"start", "parsed", "keyed", "failed", "done"}
        /\ results = <<>> /\ new_score = <<>> /\ ~xml_written /\ meta = <<>>
        /\ pc \in {"failed", "done"} =>
              response[1].error = "ValueError: No parts found in score"

C8_Witness ==
    /\ ZeroParts /\ pc = "failed" /\ score_key = None
    /\ response[1].error = "ValueError: No parts found in score"

RenderFailed == meta # <<>> /\ OutPdf(mode) /\ ~meta[1].pdf_written

\* C9 as stated: when rendering fails after everything before it succeeded,
\* the serialized document is written and the run completes with the failure
\* shown only as pdf_written = false: no error reaches the caller.
C9_RenderFailureNeverSurfaces ==
    (RenderFailed /\ pc = "done") =>
        xml_written /\ response[1].error = None

\* C9 amended: a rendering failure never aborts process_musicxml_file: the
\* serialized document is written and the metadata (key, measure count,
\* uncertain count, pdf_written = false) is returned without an error; main
\* then ends normally, while build_score_from_pdf turns pdf_written = false
\* into an error that the web caller receives (HTTP 500) without the metadata.
C9_RenderFailureFatalOnlyOnWeb ==
    RenderFailed =>
        /\ pc \in {"returned", "done"} /\ xml_written
        /\ meta[1].measures = Len(MelodyMeasures)
        /\ meta[1].uncertain_measures =
              Cardinality({i \in 1..Len(results) : results[i].uncertain})
        /\ meta[1].key = None <=> score_key = None
        /\ pc = "done" =>
              IF mode = "web"
              THEN response[1] = Reply("http", 500, "PDF export failed", <<>>)
              ELSE response[1] = Reply("exit", 0, None, <<>>)

C9_Witness ==
    /\ RenderFailed /\ pc = "done" /\ mode = "web" /\ xml_written
    /\ response[1].code = 500

====
